---------------------------- MODULE Spec2Model ----------------------------
(***************************************************************************)
(* Model of the OAPE job server (src/server/server.py, src/server/agent.py):*)
(* the in-memory job store, the submit handler, the detached _run_job task  *)
(* that drives run_workflow/run_agent, the per-job asyncio.Condition and    *)
(* the event_generator of every SSE stream observer.                        *)
(*                                                                          *)
(* asyncio is cooperative: a task runs without interruption from one        *)
(* suspension point to the next, so every action below is one such run.     *)
(* Suspension points of the code: awaiting the next agent message, a        *)
(* contended lock acquisition, condition.wait(), and every `yield` of the   *)
(* event_generator (the generator resumes when the response has sent the    *)
(* frame and pulls the next one).                                           *)
(*                                                                          *)
(* The specifications share the variables:                                  *)
(*   SubmitSpec  the job store under the submit handler (any input);        *)
(*   AgentSpec   run_agent called on its own, with a recording callback;    *)
(*   Spec        one job, from the moment submit_job has stored it, with    *)
(*               its workflow task, its condition and its observers;        *)
(*   FairSpec    Spec with a fair event loop, fair timers and one client    *)
(*               that keeps reading;                                        *)
(*   UntimedSpec FairSpec without the assumption that timers fire.          *)
(*                                                                          *)
(* The command-line program (src/agent-wo-server/agent) runs the same       *)
(* workflow without the server: run_workflow calls phase 1 (one session,    *)
(* five turns), phase 2 (two sub-sessions under asyncio.gather) and phase 3 *)
(* (the CI watcher).  Its specifications:                                   *)
(*   PipelineSpec     run_workflow up to the start of the watcher's loop;   *)
(*   PipelineFairSpec PipelineSpec with steps that are not starved;         *)
(*   WatcherSpec      phase3.run from its call, for several mappings and    *)
(*                    arguments, against any replies of gh;                 *)
(*   WatcherFairSpec  WatcherSpec with steps that are not starved.          *)
(***************************************************************************)
EXTENDS Integers, Sequences, FiniteSets, TLC

(***************************************************************************)
(* Bounds of the model.                                                     *)
(***************************************************************************)
\* longest tail appended to a URL head when enumerating submit inputs
MaxTail == 3
\* number of entries a session may emit before the stream ends or raises
MaxEvents == 2

\* Python's None
None == "None"

VARIABLES
    jobs,          \* server.py:42   job_id -> job record
    tasks,         \* job_id -> position of the detached _run_job task
    request,       \* the input of a POST /submit being handled, or NoRequest
    response,      \* the last response of submit_job
    locked,        \* the lock of jobs[J]["message_event"] is held
    lockq,         \* FIFO of tasks suspended in acquire() of that lock
    waiters,       \* observers suspended in condition.wait()
    notifyReady,   \* _notify tasks created by on_message and not yet started
    conversation,  \* run_agent's local list of entries
    output_parts,  \* run_agent's local list of text parts
    cost_usd,      \* run_agent's local cost
    callbacks,     \* the entries on_message has been called with, in order
    result,        \* the AgentResult run_agent returned, or NoResult
    obs,           \* observer -> state of its event_generator
    pending,       \* observer -> frame yielded and not yet sent, or None
    frames,        \* observer -> message and complete frames sent, in order
    keepalives,    \* observer -> a keepalive frame has been sent
    state,         \* main.py:48    the WorkflowState of the command-line run
    phase,         \* the position of run_workflow
    sess,          \* session -> position of the code that drives it
    turns,         \* the turns issued so far, <<session, number>>, in order
    outcome,       \* phase2.py:190 label -> the line printed for it
    call,          \* the arguments phase3.run was called with
    wpc,           \* the position of phase3.run
    clock,         \* phase3.py:87  time.time() - start, in seconds
    remaining,     \* phase3.py:88  the pending references, in dict order
    passed,        \* phase3.py:89
    failed,        \* phase3.py:90
    round,         \* phase3.py:93  the snapshot of remaining still to visit
    polled,        \* phase3.py:94  the last query: its label and gh's reply
    report         \* phase3.py:115 the final report of phase3.run

\* the variables of the pipeline (main.py, phase1.py, phase2.py)
pipeVars == <<state, phase, sess, turns, outcome>>

\* the variables of the CI watcher (phase3.py)
watchVars == <<call, wpc, clock, remaining, passed, failed, round, polled,
               report>>

\* the variables of the command-line program
cliVars == <<pipeVars, watchVars>>

vars == <<jobs, tasks, request, response, locked, lockq, waiters, notifyReady,
          conversation, output_parts, cost_usd, callbacks, result, obs, pending,
          frames, keepalives, cliVars>>

(***************************************************************************)
(* Text helpers.  A string is a sequence of one-character strings.          *)
(***************************************************************************)
RECURSIVE Rstrip(_, _)
\* str.rstrip(ch): drop every trailing ch
Rstrip(s, ch) ==
    IF s # <<>> /\ s[Len(s)] = ch THEN Rstrip(SubSeq(s, 1, Len(s) - 1), ch) ELSE s

\* \d of the pattern (ASCII digits of the input alphabet)
IsDigit(c) == c \in {"0", "1", "2", "3", "4", "5", "6", "7", "8", "9"}

\* the literal part of EP_URL_PATTERN, "https://github\.com/openshift/enhancements/pull/"
EpUrlPrefix ==
    <<"h", "t", "t", "p", "s", ":", "/", "/", "g", "i", "t", "h", "u", "b", ".",
      "c", "o", "m", "/", "o", "p", "e", "n", "s", "h", "i", "f", "t", "/", "e",
      "n", "h", "a", "n", "c", "e", "m", "e", "n", "t", "s", "/", "p", "u", "l",
      "l", "/">>

\* EP_URL_PATTERN.match(s): ^ literal \d+ /? $, where $ matches at the end of
\* the string and also just before a line feed that ends the string
EpUrlPatternMatch(s) ==
    LET n == Len(EpUrlPrefix)
        rest == SubSeq(s, n + 1, Len(s))
    IN  /\ Len(s) > n
        /\ SubSeq(s, 1, n) = EpUrlPrefix
        /\ \E k \in 1..Len(rest) :
              /\ \A i \in 1..k : IsDigit(rest[i])
              /\ SubSeq(rest, k + 1, Len(rest)) \in
                    {<<>>, <<"/">>, <<"\n">>, <<"/", "\n">>}

\* faulty variant: the pattern without the anchored "/?$" tail (re.match of a prefix)
ValidEpUrlPrefixOnly(ep_url) ==
    LET n == Len(EpUrlPrefix)
    IN  /\ Len(ep_url) > n
        /\ SubSeq(ep_url, 1, n) = EpUrlPrefix
        /\ IsDigit(ep_url[n + 1])

\* _validate_ep_url does not raise
ValidEpUrl(ep_url) == EpUrlPatternMatch(Rstrip(ep_url, "/"))

(***************************************************************************)
(* Inputs of submit: a head followed by a short tail.                       *)
(***************************************************************************)
UrlHeads ==
    { EpUrlPrefix,
      <<" ">> \o EpUrlPrefix,
      <<"h", "t", "t", "p", "s", ":", "/", "/", "e", "x", "a", "m", "p", "l", "e",
        ".", "c", "o", "m", "/", "p", "u", "l", "l", "/">>,
      <<"h", "t", "t", "p", "s", ":", "/", "/", "g", "i", "t", "h", "u", "b", "x",
        "c", "o", "m", "/", "o", "p", "e", "n", "s", "h", "i", "f", "t", "/", "e",
        "n", "h", "a", "n", "c", "e", "m", "e", "n", "t", "s", "/", "p", "u", "l",
        "l", "/">> }

TailChars == {"1", "a", "/", "\n"}

UrlTails == UNION { [1..n -> TailChars] : n \in 0..MaxTail }

SubmitInputs == { h \o t : h \in UrlHeads, t \in UrlTails }

(***************************************************************************)
(* The job store.                                                           *)
(***************************************************************************)
\* the job ids uuid4().hex[:12] draws from (an id already in the store is never
\* drawn again: the 48-bit ids are taken to be collision-free)
JobIds == {"j1", "j2"}

\* the job the streaming specifications follow, and the URL it was submitted with
J == "j1"
JUrl == EpUrlPrefix \o <<"1", "2", "3">>

\* server.py:73-81, the record submit_job stores ("" is the empty text <<>>)
NewJob(ep_url) ==
    [status |-> "running", ep_url |-> ep_url, conversation |-> <<>>,
     output |-> <<>>, cost_usd |-> 0, error |-> None]

\* run_agent has not returned
NoResult == [returned |-> FALSE]

\* no request answered yet
NoResponse == [code |-> "none"]

\* the variables of the job under observation that submit never touches
streamVars == <<locked, lockq, waiters, notifyReady, conversation, output_parts,
                cost_usd, callbacks, result, obs, pending, frames, keepalives>>

\* no request is being handled
NoRequest == <<"">>

\* a client posts the form field ep_url (while uuid4 still has ids to draw)
PostSubmit(ep_url) ==
    /\ request = NoRequest
    /\ JobIds \ DOMAIN jobs # {}
    /\ request' = ep_url
    /\ UNCHANGED <<jobs, tasks, response, cliVars>>
    /\ UNCHANGED streamVars

\* server.py:65-83, POST /submit.  _validate_ep_url raises HTTPException(400)
\* before anything is stored; otherwise a job is stored under a fresh id (uuid4),
\* the _run_job task is created (it has not run when the handler returns) and
\* the id is returned.
submit_job(ep_url) ==
    /\ request # NoRequest
    /\ ep_url = request
    /\ request' = NoRequest
    /\ IF ~ValidEpUrl(ep_url)
       THEN /\ response' = [code |-> "400"]
            /\ UNCHANGED <<jobs, tasks>>
       ELSE \E job_id \in JobIds \ DOMAIN jobs :
            /\ jobs' = jobs @@ (job_id :> NewJob(ep_url))
            /\ tasks' = tasks @@ (job_id :> "created")
            /\ response' = [code |-> "200", job_id |-> job_id]
    /\ UNCHANGED <<streamVars, cliVars>>

\* server.py:86-99, GET /status/{job_id} for a stored job: a read of its fields
job_status(job_id) ==
    LET job == jobs[job_id]
    IN  [status |-> job.status, ep_url |-> job.ep_url, output |-> job.output,
         cost_usd |-> job.cost_usd, error |-> job.error,
         message_count |-> Len(job.conversation)]

\* gh is not run for a reference that phase3.py:19 does not match
NoReply == [kind |-> "none"]

\* phase3.run has not come to its final report
NoReport ==
    [printed |-> FALSE, written |-> FALSE, passed |-> <<>>, failed |-> <<>>,
     timed_out |-> <<>>]

\* no reference has been queried yet
NoPoll == [label |-> "", reply |-> NoReply]

\* the command-line program has not been started
CliIdle ==
    /\ state = [repo_local_path |-> "", pr_urls |-> <<>>]
    /\ phase = "idle"
    /\ sess = <<>>
    /\ turns = <<>>
    /\ outcome = <<>>
    /\ call = <<>>
    /\ wpc = "idle"
    /\ clock = 0
    /\ remaining = <<>>
    /\ passed = <<>>
    /\ failed = <<>>
    /\ round = <<>>
    /\ polled = NoPoll
    /\ report = NoReport

\* the streaming variables before any job runs
StreamIdle ==
    /\ locked = FALSE
    /\ lockq = <<>>
    /\ waiters = {}
    /\ notifyReady = 0
    /\ conversation = <<>>
    /\ output_parts = <<>>
    /\ cost_usd = 0
    /\ callbacks = <<>>
    /\ result = NoResult
    /\ obs = <<>>
    /\ pending = <<>>
    /\ frames = <<>>
    /\ keepalives = <<>>

\* server.py:42, the empty store of a fresh process
SubmitInit ==
    /\ jobs = <<>>
    /\ tasks = <<>>
    /\ request = NoRequest
    /\ response = NoResponse
    /\ StreamIdle
    /\ CliIdle

SubmitNext ==
    \/ \E ep_url \in SubmitInputs : PostSubmit(ep_url)
    \/ submit_job(request)

SubmitSpec == SubmitInit /\ [][SubmitNext]_vars

(***************************************************************************)
(* run_agent (agent.py:177-308): the session runner.                        *)
(***************************************************************************)
\* the texts the agent produces: the n-th entry of a session carries Chunks[n]
Chunks == <<"c1", "c2", "c3", "c4", "c5", "c6", "c7", "c8">>

\* the cumulative cost a ResultMessage reports
ResultCosts == {7}

\* the descriptions str(exc) of the exceptions the stream raises ("" for an
\* exception without arguments)
ExcTexts == {"boom", ""}

\* the content blocks of an AssistantMessage whose first entry is the n-th
TextBlock(n) == [kind |-> "TextBlock", text |-> Chunks[n]]
ThinkingBlock(n) == [kind |-> "ThinkingBlock", text |-> Chunks[n]]
ToolUseBlock(n) == [kind |-> "ToolUseBlock", text |-> Chunks[n]]
ToolResultBlock(n) == [kind |-> "ToolResultBlock", text |-> Chunks[n]]
OtherBlock(n) == [kind |-> "OtherBlock", text |-> Chunks[n]]

AssistantMessage(blocks) ==
    [kind |-> "AssistantMessage", content |-> blocks, total_cost_usd |-> 0,
     result |-> None]
ResultMessage(cost, text) ==
    [kind |-> "ResultMessage", content |-> <<>>, total_cost_usd |-> cost,
     result |-> text]
SystemMessage(n) ==
    [kind |-> "SystemMessage", content |-> <<OtherBlock(n)>>, total_cost_usd |-> 0,
     result |-> None]

\* agent.py:225-268, the entry built for one content block (the payload keys of
\* the variants are folded into content)
BlockEntry(block) ==
    [type |-> "assistant",
     block_type |-> CASE block.kind = "TextBlock" -> "text"
                      [] block.kind = "ThinkingBlock" -> "thinking"
                      [] block.kind = "ToolUseBlock" -> "tool_use"
                      [] block.kind = "ToolResultBlock" -> "tool_result"
                      [] OTHER -> block.kind,
     content |-> block.text]

\* agent.py:223-291, the entries one stream message is classified into, in order
\* (only a ResultMessage's entry has the key cost_usd, only a block's entry the
\* key block_type)
MessageEntries(message) ==
    CASE message.kind = "AssistantMessage" ->
            [i \in 1..Len(message.content) |-> BlockEntry(message.content[i])]
      [] message.kind = "ResultMessage" ->
            <<[type |-> "result", content |-> message.result,
               cost_usd |-> message.total_cost_usd]>>
      [] OTHER ->
            <<[type |-> message.kind, content |-> message.content[1].text]>>

RECURSIVE TextsOf(_)
\* agent.py:226, the texts of the TextBlocks among blocks, in order
TextsOf(blocks) ==
    IF blocks = <<>> THEN <<>>
    ELSE (IF Head(blocks).kind = "TextBlock" THEN <<Head(blocks).text>> ELSE <<>>)
         \o TextsOf(Tail(blocks))

\* agent.py:226 and 271-272, what the first k entries of a message append to
\* output_parts
MessageParts(message, k) ==
    CASE message.kind = "AssistantMessage" -> TextsOf(SubSeq(message.content, 1, k))
      [] message.kind = "ResultMessage" ->
            IF message.result # None /\ message.result # "" THEN <<message.result>>
            ELSE <<>>
      [] OTHER -> <<>>

\* agent.py:270, cost_usd after the message
MessageCost(message, cost) ==
    IF message.kind = "ResultMessage" THEN message.total_cost_usd ELSE cost

RECURSIVE Join(_)
\* "\n".join(parts), as the sequence of its pieces
Join(parts) ==
    IF parts = <<>> THEN <<>>
    ELSE IF Len(parts) = 1 THEN <<parts[1]>>
    ELSE <<parts[1], "\n">> \o Join(Tail(parts))

\* agent.py:296-300, the result of a stream that ended
SuccessResult(parts, cost, conv) ==
    [returned |-> TRUE, output |-> Join(parts), cost_usd |-> cost, error |-> None,
     conversation |-> conv]

\* faulty variant: the except branch drops the cost and the events accrued so far
FailedResultReset(exc, cost, conv) ==
    [returned |-> TRUE, output |-> <<>>, cost_usd |-> 0, error |-> exc,
     conversation |-> <<>>]

\* agent.py:301-308, the result of a stream (or callback) that raised exc
FailedResult(exc, cost, conv) ==
    [returned |-> TRUE, output |-> <<>>, cost_usd |-> cost, error |-> exc,
     conversation |-> conv]

\* agent.py:172-174, AgentResult.success
Success(r) == r.error = None

\* the messages the stream may deliver when n - 1 entries exist
StreamMessages(n) ==
    { AssistantMessage(<<TextBlock(n)>>) } \cup { ResultMessage(c, "done") : c \in ResultCosts }

(***************************************************************************)
(* The condition jobs[J]["message_event"] (asyncio.Condition over its own   *)
(* asyncio.Lock).  acquire() takes a free lock nobody queues for at once;   *)
(* otherwise the caller queues, and release() hands the lock to the head of *)
(* the queue, which takes it when it next runs.                             *)
(***************************************************************************)
Observers == {"o1", "o2"}

\* acquire() returns without suspending
LockFree(lk, q) == ~lk /\ q = <<>>

\* the task t is the one release() has woken
LockHandedTo(t) == ~locked /\ lockq # <<>> /\ Head(lockq) = t

RECURSIVE Without(_, _)
\* the queue q without its entries t
Without(q, t) ==
    IF q = <<>> THEN <<>>
    ELSE (IF Head(q) = t THEN <<>> ELSE <<Head(q)>>) \o Without(Tail(q), t)

\* condition.notify_all(): every observer suspended in wait() is made runnable
NotifyAll(o) ==
    IF o \in waiters THEN [obs[o] EXCEPT !.pc = "woken"] ELSE obs[o]

(***************************************************************************)
(* The frames of the event stream (server.py:116-141).                      *)
(***************************************************************************)
\* json.dumps(value, default=str)
JsonDumps(value) == [json |-> value]

MessageFrame(entry) == [event |-> "message", data |-> JsonDumps(entry)]

\* server.py:125-133, built from the job as it is when the frame is yielded
CompleteFrame(job) ==
    [event |-> "complete",
     data |-> JsonDumps([status |-> job.status, output |-> job.output,
                         cost_usd |-> job.cost_usd, error |-> job.error])]

KeepaliveFrame == [event |-> "keepalive", data |-> ""]

NoFrame == [event |-> None, data |-> ""]

\* the message and complete frames o has handed out: those sent and the one being
\* sent (keepalive frames carry no data and are recorded in keepalives only)
Handed(o) ==
    IF pending[o].event \in {"message", "complete"}
    THEN Append(frames[o], pending[o])
    ELSE frames[o]

(***************************************************************************)
(* _run_job (server.py:146-167) and _notify (server.py:170-173).            *)
(***************************************************************************)
\* server.py:146-156 with agent.py:328-330 and 195-217: the task starts,
\* prepares the working directory and the agent options and suspends on the
\* first message of the stream.  os.makedirs and ClaudeAgentOptions(...) run outside every try: when
\* one raises, the exception leaves run_workflow and _run_job, and the task ends.
RunJobStart(ok) ==
    /\ J \in DOMAIN tasks /\ tasks[J] = "created"
    /\ tasks' = [tasks EXCEPT ![J] = IF ok THEN "streaming" ELSE "crashed"]
    /\ UNCHANGED <<jobs, request, response, cliVars,
                   locked, lockq, waiters, notifyReady, conversation,
                   output_parts, cost_usd, callbacks, result, obs, pending, frames, keepalives>>

\* server.py:154, one _notify task is created per entry
OnMessageTasks(n) == notifyReady + n

\* faulty variant: _emit calls the callback twice for every entry
EmittedTwice(entries) == entries \o entries

\* agent.py:212-216, the entries _emit hands to on_message, in order
Emitted(entries) == entries

\* str(exc) of the exception a failing callback raises
CallbackExcText == "callback failed"

\* agent.py:219-291 and 301-308, one iteration of `async for`: the message is
\* classified; each entry is appended to conversation and passed to on_message.
\* failAt = 0: every call of on_message returns.  failAt = k > 0: the k-th call
\* raises, after its entry was appended; the except branch then builds the
\* failed result from what has accrued.
AgentStep(message, failAt) ==
    LET entries == MessageEntries(message)
        k == IF failAt = 0 THEN Len(entries) ELSE failAt
    IN  /\ conversation' = conversation \o SubSeq(entries, 1, k)
        /\ callbacks' = callbacks \o Emitted(SubSeq(entries, 1, k))
        /\ output_parts' = output_parts \o MessageParts(message, k)
        /\ cost_usd' = MessageCost(message, cost_usd)
        /\ result' = IF failAt = 0 THEN result
                      ELSE FailedResult(CallbackExcText, cost_usd', conversation')

\* agent.py:293-308, the result run_agent returns when the stream stops
AgentResultOf(stop) ==
    IF ~stop.raised
    THEN SuccessResult(output_parts, cost_usd, conversation)
    ELSE FailedResult(stop.text, cost_usd, conversation)

\* agent.py:219-291 with server.py:152-154: the stream delivers one message to
\* the job's session; on_message appends each entry to the job's log and creates
\* a _notify task (it never raises).
AgentMessage(message) ==
    LET n == Len(MessageEntries(message))
    IN  /\ J \in DOMAIN tasks /\ tasks[J] = "streaming"
        /\ Len(conversation) + n <= MaxEvents
        /\ AgentStep(message, 0)
        /\ jobs' = [jobs EXCEPT ![J].conversation =
                                  @ \o Emitted(MessageEntries(message))]
        /\ notifyReady' = OnMessageTasks(n)
        /\ UNCHANGED <<tasks, request, response, cliVars, locked, lockq, waiters, obs, pending,
                       frames, keepalives>>

\* faulty variant: the status is written and the error is left for later
FinalizedStatusOnly(job, r) ==
    IF Success(r)
    THEN [job EXCEPT !.status = "success"]
    ELSE [job EXCEPT !.status = "failed"]

\* server.py:157-163, the job after the result is written to it
Finalized(job, r) ==
    IF Success(r)
    THEN [job EXCEPT !.status = "success", !.output = r.output,
                     !.cost_usd = r.cost_usd]
    ELSE [job EXCEPT !.status = "failed", !.error = r.error]

\* faulty variant: the job is finalized from inside the loop, which goes on consuming
AfterResultStillStreaming(free) == "streaming"

\* server.py:165-167, where _run_job is once the result is written: it has
\* notified and ended when the lock was free, else it is queued for the lock
AfterResult(free) == IF free THEN "done" ELSE "final_lock"

\* how a stream stops: it ends, or it raises an exception described by text
StreamStops ==
    { [raised |-> FALSE, text |-> ""] } \cup
    { [raised |-> TRUE, text |-> t] : t \in ExcTexts }

\* agent.py:293-308 with server.py:156-167: the stream ends or raises;
\* run_agent returns its result, _run_job writes it to the job and goes on,
\* without suspending, to the final notification: it notifies at once when
\* the lock is free and queues for the lock otherwise.
AgentReturn(stop) ==
    LET r == AgentResultOf(stop)
    IN  /\ J \in DOMAIN tasks /\ tasks[J] = "streaming"
        /\ result' = r
        /\ jobs' = [jobs EXCEPT ![J] = Finalized(@, r)]
        /\ tasks' = [tasks EXCEPT ![J] = AfterResult(LockFree(locked, lockq))]
        /\ IF LockFree(locked, lockq)
           THEN /\ obs' = [o \in DOMAIN obs |-> NotifyAll(o)]
                /\ waiters' = {}
                /\ UNCHANGED lockq
           ELSE /\ lockq' = Append(lockq, "run_job")
                /\ UNCHANGED <<obs, waiters>>
        /\ UNCHANGED <<request, response, cliVars,
                       locked, notifyReady, conversation, output_parts,
                       cost_usd, callbacks, pending, frames, keepalives>>

\* server.py:166-167 after a contended acquire: _run_job is handed the lock,
\* notifies every waiter, releases the lock and ends.
RunJobNotify ==
    /\ J \in DOMAIN tasks /\ tasks[J] = "final_lock"
    /\ LockHandedTo("run_job")
    /\ lockq' = Tail(lockq)
    /\ obs' = [o \in DOMAIN obs |-> NotifyAll(o)]
    /\ waiters' = {}
    /\ tasks' = [tasks EXCEPT ![J] = "done"]
    /\ UNCHANGED <<jobs, request, response, cliVars,
                   locked, notifyReady, conversation, output_parts,
                   cost_usd, callbacks, result, pending, frames, keepalives>>

\* server.py:170-173, a _notify task starts: it notifies at once when the lock
\* is free and queues for the lock otherwise.
NotifyStart ==
    /\ notifyReady > 0
    /\ notifyReady' = notifyReady - 1
    /\ IF LockFree(locked, lockq)
       THEN /\ obs' = [o \in DOMAIN obs |-> NotifyAll(o)]
            /\ waiters' = {}
            /\ UNCHANGED lockq
       ELSE /\ lockq' = Append(lockq, "notify")
            /\ UNCHANGED <<obs, waiters>>
    /\ UNCHANGED <<jobs, tasks, request, response, cliVars, locked, conversation, output_parts,
                   cost_usd, callbacks, result, pending, frames, keepalives>>

\* server.py:172-173 after a contended acquire
NotifyGranted ==
    /\ LockHandedTo("notify")
    /\ lockq' = Tail(lockq)
    /\ obs' = [o \in DOMAIN obs |-> NotifyAll(o)]
    /\ waiters' = {}
    /\ UNCHANGED <<jobs, tasks, request, response, cliVars, locked, notifyReady, conversation,
                   output_parts, cost_usd, callbacks, result, pending, frames, keepalives>>

(***************************************************************************)
(* stream_job and its event_generator (server.py:102-143).  An observer is  *)
(*   idle        no stream request made yet                                 *)
(*   attached    stream_job returned the response; the generator not started*)
(*   y_message   suspended at the yield of a message frame (line 116)       *)
(*   y_complete  suspended at the yield of the complete frame (line 125)    *)
(*   enter       suspended in acquire() of `async with condition` (line 137)*)
(*   waiting     suspended in condition.wait() (line 139), lock released    *)
(*   woken       notified, or cancelled by the timeout, and not yet run     *)
(*   reacquire   suspended in the acquire() that ends condition.wait()      *)
(*   y_keepalive suspended at the yield of a keepalive frame (line 141),    *)
(*               inside `async with condition`: the lock is held            *)
(*   done        the generator returned                                     *)
(***************************************************************************)
IdleObserver == [pc |-> "idle", cursor |-> 0, timedOut |-> FALSE, late |-> FALSE]

\* server.py:102-143, GET /stream/{job_id} for the stored job: the response is
\* created around a generator that has not started (late: the job was already
\* finished at that moment).
stream_job(o) ==
    /\ J \in DOMAIN jobs
    /\ obs[o].pc = "idle"
    /\ obs' = [obs EXCEPT ![o] = [pc |-> "attached", cursor |-> 0,
                                  timedOut |-> FALSE,
                                  late |-> jobs[J].status # "running"]]
    /\ UNCHANGED <<jobs, tasks, request, response, cliVars, locked, lockq, waiters, notifyReady,
                   conversation, output_parts, cost_usd, callbacks, result, pending,
                   frames, keepalives>>

\* faulty variant: the cursor skips an entry after each message frame
NextCursorSkipping(cursor) == cursor + 2

\* server.py:120
NextCursor(cursor) == cursor + 1

\* faulty variant: the status is checked before the log is drained
LoopTopStatusFirst(o, cursor, lk, q, ws) ==
    LET job == jobs[J]
    IN  IF job.status # "running"
        THEN [pc |-> "y_complete", cursor |-> cursor, frame |-> CompleteFrame(job),
              locked |-> lk, lockq |-> q, waiters |-> ws]
        ELSE IF cursor < Len(job.conversation)
        THEN [pc |-> "y_message", cursor |-> cursor,
              frame |-> MessageFrame(job.conversation[cursor + 1]),
              locked |-> lk, lockq |-> q, waiters |-> ws]
        ELSE IF LockFree(lk, q)
        THEN [pc |-> "waiting", cursor |-> cursor, frame |-> NoFrame,
              locked |-> FALSE, lockq |-> q, waiters |-> ws \cup {o}]
        ELSE [pc |-> "enter", cursor |-> cursor, frame |-> NoFrame,
              locked |-> lk, lockq |-> Append(q, o), waiters |-> ws]

\* server.py:112-139, the generator's run from the top of its loop to its next
\* suspension, with the lock lk, its queue q and the waiters ws as they are at
\* that moment: the next message frame if the log holds an entry at the cursor;
\* else the complete frame if the job is not running; else `async with
\* condition` and condition.wait(), which releases the lock it has just taken.
LoopTop(o, cursor, lk, q, ws) ==
    LET job == jobs[J]
    IN  IF cursor < Len(job.conversation)
        THEN [pc |-> "y_message", cursor |-> cursor,
              frame |-> MessageFrame(job.conversation[cursor + 1]),
              locked |-> lk, lockq |-> q, waiters |-> ws]
        ELSE IF job.status # "running"
        THEN [pc |-> "y_complete", cursor |-> cursor, frame |-> CompleteFrame(job),
              locked |-> lk, lockq |-> q, waiters |-> ws]
        ELSE IF LockFree(lk, q)
        THEN [pc |-> "waiting", cursor |-> cursor, frame |-> NoFrame,
              locked |-> FALSE, lockq |-> q, waiters |-> ws \cup {o}]
        ELSE [pc |-> "enter", cursor |-> cursor, frame |-> NoFrame,
              locked |-> lk, lockq |-> Append(q, o), waiters |-> ws]

\* the observer o moves to the suspension point nxt describes
Suspend(o, nxt) ==
    /\ obs' = [obs EXCEPT ![o].pc = nxt.pc, ![o].cursor = nxt.cursor,
                          ![o].timedOut = FALSE]
    /\ pending' = [pending EXCEPT ![o] = nxt.frame]
    /\ locked' = nxt.locked
    /\ lockq' = nxt.lockq
    /\ waiters' = nxt.waiters

\* the keepalive suspension of server.py:141: the lock stays held
AtKeepalive(o, q) ==
    [pc |-> "y_keepalive", cursor |-> obs[o].cursor, frame |-> KeepaliveFrame,
     locked |-> TRUE, lockq |-> q, waiters |-> waiters]

\* The response has sent the frame it was given (if any) and pulls the next one:
\* the generator starts (server.py:109) or resumes after its yield (116-120,
\* 125-134, 141) and runs to its next suspension.  Leaving the keepalive yield
\* leaves `async with condition` and releases the lock.
Pull(o) ==
    /\ obs[o].pc \in {"attached", "y_message", "y_complete", "y_keepalive"}
    /\ frames' = [frames EXCEPT ![o] = Handed(o)]
    /\ keepalives' = [keepalives EXCEPT ![o] = @ \/ pending[o] = KeepaliveFrame]
    /\ CASE obs[o].pc = "attached" ->
                Suspend(o, LoopTop(o, 0, locked, lockq, waiters))
         [] obs[o].pc = "y_message" ->
                Suspend(o, LoopTop(o, NextCursor(obs[o].cursor), locked, lockq,
                                   waiters))
         [] obs[o].pc = "y_keepalive" ->
                Suspend(o, LoopTop(o, obs[o].cursor, FALSE, lockq, waiters))
         [] obs[o].pc = "y_complete" ->
                /\ obs' = [obs EXCEPT ![o].pc = "done"]
                /\ pending' = [pending EXCEPT ![o] = NoFrame]
                /\ UNCHANGED <<locked, lockq, waiters>>
    /\ UNCHANGED <<jobs, tasks, request, response, cliVars,
                   notifyReady, conversation, output_parts,
                   cost_usd, callbacks, result>>

\* server.py:137-139 after a contended acquire: the observer is handed the
\* lock, enters the block and calls condition.wait(), which releases the lock.
EnterGranted(o) ==
    /\ obs[o].pc = "enter"
    /\ LockHandedTo(o)
    /\ Suspend(o, [pc |-> "waiting", cursor |-> obs[o].cursor, frame |-> NoFrame,
                   locked |-> FALSE, lockq |-> Tail(lockq),
                   waiters |-> waiters \cup {o}])
    /\ UNCHANGED <<jobs, tasks, request, response, cliVars,
                   notifyReady, conversation, output_parts,
                   cost_usd, callbacks, result, frames, keepalives>>

\* server.py:139-141, with the lock taken again at the end of condition.wait():
\* a notified observer leaves the block (releasing the lock) and loops; one
\* whose wait_for timed out yields a keepalive frame with the lock held.
AfterWait(o, q) ==
    IF obs[o].timedOut
    THEN Suspend(o, AtKeepalive(o, q))
    ELSE Suspend(o, LoopTop(o, obs[o].cursor, FALSE, q, waiters))

\* server.py:139, a woken observer runs: condition.wait() takes the lock again,
\* at once when it is free, else by queueing for it.
WakeRun(o) ==
    /\ obs[o].pc = "woken"
    /\ IF LockFree(locked, lockq)
       THEN AfterWait(o, lockq)
       ELSE /\ obs' = [obs EXCEPT ![o].pc = "reacquire"]
            /\ lockq' = Append(lockq, o)
            /\ UNCHANGED <<pending, locked, waiters>>
    /\ UNCHANGED <<jobs, tasks, request, response, cliVars,
                   notifyReady, conversation, output_parts,
                   cost_usd, callbacks, result, frames, keepalives>>

\* server.py:139, the queued re-acquisition is handed the lock
ReacquireGranted(o) ==
    /\ obs[o].pc = "reacquire"
    /\ LockHandedTo(o)
    /\ AfterWait(o, Tail(lockq))
    /\ UNCHANGED <<jobs, tasks, request, response, cliVars,
                   notifyReady, conversation, output_parts,
                   cost_usd, callbacks, result, frames, keepalives>>

\* server.py:139-140, the 30 s of wait_for elapse before condition.wait() has
\* returned: the wait is cancelled.  A waiter leaves the waiters; a queued
\* re-acquisition is abandoned and made again, at the end of the queue.  In each
\* case wait() still takes the lock before TimeoutError reaches line 140.
Timeout(o) ==
    /\ obs[o].pc \in {"waiting", "woken", "reacquire"}
    /\ ~obs[o].timedOut
    /\ obs' = [obs EXCEPT ![o].timedOut = TRUE,
                          ![o].pc = IF @ = "waiting" THEN "woken" ELSE @]
    /\ waiters' = waiters \ {o}
    /\ lockq' = IF obs[o].pc = "reacquire" THEN Append(Without(lockq, o), o)
                ELSE lockq
    /\ UNCHANGED <<jobs, tasks, request, response, cliVars, locked, notifyReady, conversation,
                   output_parts, cost_usd, callbacks, result, pending, frames, keepalives>>

(***************************************************************************)
(* The specification of one job and its observers.                          *)
(***************************************************************************)
\* the state submit_job leaves: the job stored, its task created, nothing run
Init ==
    /\ jobs = (J :> NewJob(JUrl))
    /\ tasks = (J :> "created")
    /\ request = NoRequest
    /\ response = [code |-> "200", job_id |-> J]
    /\ locked = FALSE
    /\ lockq = <<>>
    /\ waiters = {}
    /\ notifyReady = 0
    /\ conversation = <<>>
    /\ output_parts = <<>>
    /\ cost_usd = 0
    /\ callbacks = <<>>
    /\ result = NoResult
    /\ obs = [o \in Observers |-> IdleObserver]
    /\ pending = [o \in Observers |-> NoFrame]
    /\ frames = [o \in Observers |-> <<>>]
    /\ keepalives = [o \in Observers |-> FALSE]
    /\ CliIdle

Next ==
    \/ \E ok \in BOOLEAN : RunJobStart(ok)
    \/ \E m \in StreamMessages(Len(conversation) + 1) : AgentMessage(m)
    \/ \E stop \in StreamStops : AgentReturn(stop)
    \/ RunJobNotify
    \/ NotifyStart
    \/ NotifyGranted
    \/ \E o \in Observers :
          \/ stream_job(o)
          \/ Pull(o)
          \/ EnterGranted(o)
          \/ WakeRun(o)
          \/ ReacquireGranted(o)
          \/ Timeout(o)

Spec == Init /\ [][Next]_vars

\* the observer whose client keeps reading its response
Watched == "o1"

\* What the event loop guarantees: a task that can run does run (a task handed
\* the lock takes it, a notified waiter resumes, a created _notify task starts).
\* Nothing is assumed about when the agent's stream delivers or stops.
LoopFairness ==
    /\ WF_vars(RunJobNotify)
    /\ WF_vars(NotifyStart)
    /\ WF_vars(NotifyGranted)
    /\ \A o \in Observers :
          /\ WF_vars(EnterGranted(o))
          /\ WF_vars(WakeRun(o))
          /\ WF_vars(ReacquireGranted(o))

\* the timers of wait_for (server.py:139) fire
TimerFairness == \A o \in Observers : WF_vars(Timeout(o))

\* The server with a fair event loop and fair timers, and one client (Watched)
\* that reads every frame it is sent; the other clients read or stall as they
\* please.
FairSpec ==
    Init /\ [][Next]_vars /\ LoopFairness /\ TimerFairness /\ WF_vars(Pull(Watched))

\* The same without any assumption on the timers: the 30 s may never elapse.
UntimedSpec ==
    Init /\ [][Next]_vars /\ LoopFairness /\ WF_vars(Pull(Watched))

(***************************************************************************)
(* Claims about the event stream and the job (checked under Spec).          *)
(***************************************************************************)
IsMessageFrame(f) == f.event = "message"
IsCompleteFrame(f) == f.event = "complete"

\* the message frames among fs, in order
MessageFrames(fs) == SelectSeq(fs, IsMessageFrame)

\* the message frames of the first n entries of the log
LogFrames(n) == [i \in 1..n |-> MessageFrame(jobs[J].conversation[i])]

\* the job has reached a terminal status
Terminal == jobs[J].status \in {"success", "failed"}

\* C1: for every observer, at every moment, the message frames it has sent are
\* the first `cursor` entries of the job's log, in log order, and a message
\* frame it is sending is the entry at the cursor: nothing is skipped,
\* duplicated or reordered, whatever the interleaving of appends and frames.
C1_StreamIsLogPrefix ==
    \A o \in Observers :
        /\ obs[o].cursor <= Len(jobs[J].conversation)
        /\ MessageFrames(frames[o]) = LogFrames(obs[o].cursor)
        /\ IsMessageFrame(pending[o]) =>
              /\ obs[o].cursor < Len(jobs[J].conversation)
              /\ pending[o] = MessageFrame(jobs[J].conversation[obs[o].cursor + 1])

\* C1 witness: two observers at different cursors of a log that is still growing
C1_Witness ==
    /\ jobs[J].status = "running"
    /\ Len(jobs[J].conversation) = 2
    /\ Len(MessageFrames(frames["o1"])) = 2
    /\ Len(MessageFrames(frames["o2"])) = 1
    /\ keepalives["o2"]

\* C3: an observer that attaches after the job has reached a terminal status
\* never waits on the condition and never hands out a keepalive frame; what it
\* hands out is a prefix of (one message frame per entry of the log, in order,
\* then the complete frame), it is always at a point where only its own
\* response has to pull, and when it is done it has sent all of it.
C3_LateObserver ==
    \A o \in Observers :
        obs[o].late =>
            LET all == Append(LogFrames(Len(jobs[J].conversation)),
                              CompleteFrame(jobs[J]))
            IN  /\ ~keepalives[o]
                /\ pending[o] # KeepaliveFrame
                /\ obs[o].pc \in {"attached", "y_message", "y_complete", "done"}
                /\ o \notin waiters
                /\ Len(Handed(o)) <= Len(all)
                /\ Handed(o) = SubSeq(all, 1, Len(Handed(o)))
                /\ obs[o].pc = "done" => frames[o] = all

\* C3 witness: a late observer has sent two message frames and the complete frame
C3_Witness ==
    \E o \in Observers :
        /\ obs[o].late
        /\ obs[o].pc = "done"
        /\ Len(frames[o]) = 3

\* C4: once the job's status is success or failed, no step changes the job's
\* status, log, output, cost or error.
C4_TerminalJobFrozen == [][Terminal => jobs'[J] = jobs[J]]_vars

\* C4 witness: a failed job with a log, after its task has ended and an observer
\* has finished
C4_Witness ==
    /\ jobs[J].status = "failed"
    /\ Len(jobs[J].conversation) = 2
    /\ tasks[J] = "done"
    /\ \E o \in Observers : obs[o].pc = "done"

\* C5 (as claimed): whenever the detached task has ended, whichever way, the job
\* is success or failed.
C5_EndedTaskSettlesJob ==
    tasks[J] \in {"done", "crashed"} => Terminal

\* the fields a status query or a complete frame shows are consistent
Consistent(status, output, cost, error) ==
    /\ status = "running" => error = None
    /\ status = "success" =>
          /\ error = None
          /\ result.returned
          /\ output = result.output
          /\ cost = result.cost_usd
    /\ status = "failed" => error # None

\* C6: in every state the job's fields are mutually consistent (running or
\* success: no error; success: output and cost are the session's result; failed:
\* an error is present), and so are the fields of every complete frame, which
\* also never carries status running.
C6_ConsistentFields ==
    /\ Consistent(job_status(J).status, job_status(J).output, job_status(J).cost_usd,
                  job_status(J).error)
    /\ \A o \in Observers :
          \A i \in 1..Len(Handed(o)) :
              IsCompleteFrame(Handed(o)[i]) =>
                  LET d == Handed(o)[i].data.json
                  IN  /\ d.status # "running"
                      /\ Consistent(d.status, d.output, d.cost_usd, d.error)

\* C6 witness: a job failed by an exception whose description is empty, shown to
\* one observer in its complete frame while another is still waking up
C6_Witness ==
    /\ jobs[J].status = "failed"
    /\ jobs[J].error = ""
    /\ \E o \in Observers : IsCompleteFrame(pending[o])
    /\ \E o \in Observers : obs[o].pc = "woken"

(***************************************************************************)
(* Claims about submit (checked under SubmitSpec).                          *)
(***************************************************************************)
\* input is exactly https://github.com/openshift/enhancements/pull/<digits>
IsEpUrl(input) ==
    /\ Len(input) > Len(EpUrlPrefix)
    /\ SubSeq(input, 1, Len(EpUrlPrefix)) = EpUrlPrefix
    /\ \A i \in (Len(EpUrlPrefix) + 1)..Len(input) : IsDigit(input[i])

\* a trailer the handler lets through: "/" characters, with at most one line
\* feed among them, standing first or right after one "/"
IsTrailer(t) ==
    /\ \A i \in 1..Len(t) : t[i] \in {"/", "\n"}
    /\ \A i, k \in 1..Len(t) : (t[i] = "\n" /\ t[k] = "\n") => i = k
    /\ \A i \in 1..Len(t) : t[i] = "\n" => i <= 2

\* input is https://github.com/openshift/enhancements/pull/<digits> followed by
\* a trailer
IsEpUrlWithTrailer(input) ==
    \E n \in 1..Len(input) :
        /\ IsEpUrl(SubSeq(input, 1, n))
        /\ IsTrailer(SubSeq(input, n + 1, Len(input)))

\* the request is answered 400, nothing is stored and no task is created
Rejected ==
    /\ response'.code = "400"
    /\ jobs' = jobs
    /\ tasks' = tasks

\* exactly one job is added, running, with an empty log and no error; its id is
\* returned and its task has not taken a step
Created(input) ==
    \E id \in JobIds \ DOMAIN jobs :
        /\ DOMAIN jobs' = DOMAIN jobs \cup {id}
        /\ \A j \in DOMAIN jobs : jobs'[j] = jobs[j] /\ tasks'[j] = tasks[j]
        /\ jobs'[id].status = "running"
        /\ jobs'[id].ep_url = input
        /\ jobs'[id].conversation = <<>>
        /\ jobs'[id].error = None
        /\ DOMAIN tasks' = DOMAIN jobs'
        /\ tasks'[id] = "created"
        /\ response' = [code |-> "200", job_id |-> id]

AgentTask == "run_agent"

\* the messages a session may deliver when n - 1 entries exist
AgentMessages(n) ==
    { AssistantMessage(<<TextBlock(n)>>),
      AssistantMessage(<<TextBlock(n), ToolUseBlock(n + 1)>>),
      AssistantMessage(<<ThinkingBlock(n)>>),
      AssistantMessage(<<ToolResultBlock(n)>>),
      AssistantMessage(<<OtherBlock(n)>>),
      SystemMessage(n) }
    \cup { ResultMessage(c, t) : c \in ResultCosts, t \in {"done", ""} }

\* agent.py:195-217, before the try: the options are built and the request is
\* logged.  An exception here (a missing CONFIGS key, a rejected option) leaves
\* run_agent as a raised error.
RunAgentStart(ok) ==
    /\ AgentTask \in DOMAIN tasks /\ tasks[AgentTask] = "created"
    /\ tasks' = [tasks EXCEPT ![AgentTask] = IF ok THEN "streaming" ELSE "raised"]
    /\ UNCHANGED <<jobs, request, response, cliVars>>
    /\ UNCHANGED streamVars

\* agent.py:219-291 and 301-308, one iteration of `async for`; when the failAt-th
\* call of the callback raises, run_agent returns the failed result
RunAgentMessage(message, failAt) ==
    /\ AgentTask \in DOMAIN tasks /\ tasks[AgentTask] = "streaming"
    /\ failAt \in 0..Len(MessageEntries(message))
    /\ Len(conversation) + Len(MessageEntries(message)) <= MaxEvents
    /\ AgentStep(message, failAt)
    /\ tasks' = [tasks EXCEPT ![AgentTask] =
                                IF failAt = 0 THEN "streaming" ELSE "returned"]
    /\ UNCHANGED <<jobs, request, response, cliVars, locked, lockq, waiters, notifyReady, obs,
                   pending, frames, keepalives>>

\* agent.py:293-308, the stream ends or raises and run_agent returns
RunAgentReturn(stop) ==
    /\ AgentTask \in DOMAIN tasks /\ tasks[AgentTask] = "streaming"
    /\ result' = AgentResultOf(stop)
    /\ tasks' = [tasks EXCEPT ![AgentTask] = "returned"]
    /\ UNCHANGED <<jobs, request, response, cliVars, locked, lockq, waiters, notifyReady,
                   conversation, output_parts, cost_usd, callbacks, obs, pending,
                   frames, keepalives>>

AgentInit ==
    /\ jobs = <<>>
    /\ tasks = (AgentTask :> "created")
    /\ request = NoRequest
    /\ response = NoResponse
    /\ StreamIdle
    /\ CliIdle

AgentNext ==
    \/ \E ok \in BOOLEAN : RunAgentStart(ok)
    \/ \E message \in AgentMessages(Len(conversation) + 1), failAt \in 0..MaxEvents :
          RunAgentMessage(message, failAt)
    \/ \E stop \in StreamStops : RunAgentReturn(stop)

AgentSpec == AgentInit /\ [][AgentNext]_vars

(***************************************************************************)
(* Claims about run_agent (checked under AgentSpec).                        *)
(***************************************************************************)
RECURSIVE AccruedCost(_)
\* the cost reported by the last result event among entries, 0 when there is none
AccruedCost(entries) ==
    IF entries = <<>> THEN 0
    ELSE IF entries[Len(entries)].type = "result"
         THEN entries[Len(entries)].cost_usd
         ELSE AccruedCost(SubSeq(entries, 1, Len(entries) - 1))

\* run_agent returns, in this step, a failed result for an exception described
\* by text: the error is text, the cost is the cost accrued and the event list
\* is the list of events handed to the callback
ReturnsFailed(text) ==
    /\ tasks'[AgentTask] = "returned"
    /\ result'.returned
    /\ ~Success(result')
    /\ result'.error = text
    /\ result'.cost_usd = AccruedCost(callbacks')
    /\ result'.conversation = callbacks'

\* C10: when the agent stream raises, or the callback raises on some event,
\* run_agent does not raise: it returns a failed result whose error is the
\* exception's description, whose cost is the cost accrued before the exception
\* and whose events are those emitted before it.
C10_RaisingStreamReturnsFailed ==
    [][/\ \A stop \in StreamStops :
            (stop.raised /\ RunAgentReturn(stop)) => ReturnsFailed(stop.text)
       /\ \A message \in AgentMessages(Len(conversation) + 1) :
            \A failAt \in 1..Len(MessageEntries(message)) :
                RunAgentMessage(message, failAt) => ReturnsFailed(CallbackExcText)]_vars

\* C10 witness: the stream raised after a text event and a result event with a
\* cost, and run_agent returned the failed result
C10_Witness ==
    /\ tasks[AgentTask] = "returned"
    /\ result.returned
    /\ result.error = "boom"
    /\ Len(result.conversation) = 2
    /\ result.cost_usd = 7

(***************************************************************************)
(* Claims about the progress of an observer (checked under FairSpec and     *)
(* UntimedSpec).                                                            *)
(***************************************************************************)
\* every frame of the finished job: one message frame per entry, in log order,
\* then the complete frame with the job's final status, output, cost and error
FinalFrames ==
    Append(LogFrames(Len(jobs[J].conversation)), CompleteFrame(jobs[J]))

\* C2 (as claimed): an attached observer of a job that has reached a terminal
\* status eventually has sent exactly one message frame per entry of the final
\* log, in order, followed by exactly one complete frame, its last, carrying the
\* job's final status, output, cost and error.
C2_ObserverCompletes ==
    (Terminal /\ obs[Watched].pc # "idle")
        ~> (obs[Watched].pc = "done" /\ frames[Watched] = FinalFrames)

\* the observer o has checked the log and the status, found nothing new and
\* is on its way into, or suspended in, condition.wait()
FoundNothing(o) == obs[o].pc \in {"enter", "waiting"}

\* the log or the status holds something o has not handed out
SomethingNew(o) == obs[o].cursor < Len(jobs[J].conversation) \/ Terminal

\* C7 (as claimed): when an entry is appended or the job reaches a terminal
\* status after an observer found nothing new, the observer is woken and yields
\* the new frame, whether or not its idle timeout ever fires.
C7_NoLostWakeup ==
    (FoundNothing(Watched) /\ SomethingNew(Watched))
        ~> (obs[Watched].pc \in {"y_message", "y_complete"})

\* the observer o is suspended somewhere between two frames
Blocked(o) == obs[o].pc \in {"enter", "waiting", "woken", "reacquire"}

\* the observer o is suspended at the yield of a frame
AtYield(o) == obs[o].pc \in {"y_message", "y_complete", "y_keepalive"}

\* C8 (as claimed): an observer never stays blocked indefinitely, and each time
\* its idle window elapses it yields a keepalive frame with no payload (after
\* which it checks the log and the status again).
C8_KeepaliveEachIdleWindow ==
    /\ Blocked(Watched) ~> AtYield(Watched)
    /\ obs[Watched].timedOut ~> (pending[Watched] = KeepaliveFrame)

(***************************************************************************)
(* Claims about the hand-over of events (checked under Spec).               *)
(***************************************************************************)
\* C11: at every moment of a session the sequence of entries handed to the
\* callback, one call per entry, is the session's aggregate event list, in
\* arrival order; in the server the job's log is that list as well.
C11_CallbacksAreEventList ==
    /\ callbacks = conversation
    /\ jobs[J].conversation = conversation

\* C11 witness: two entries were emitted and handed over while the job runs
C11_Witness ==
    /\ Len(callbacks) = 2
    /\ callbacks[1].type = "assistant"
    /\ callbacks[2].type = "result"
    /\ jobs[J].status = "running"

(***************************************************************************)
(* The pipeline run from the command line (src/agent-wo-server/agent).      *)
(* Texts are sequences of pieces: the piece GitHub is the literal           *)
(* "https://github.com/", "pull" and "o" are words, "1" and "2" digits, and *)
(* "/", "(", ")", " " and "\n" are themselves.                              *)
(***************************************************************************)
GitHub == "https://github.com/"

\* \s or ")": what the class [^\s)] of utils.py:74 excludes
IsBreak(piece) == piece \in {" ", "\n", ")"}

\* the piece holds no "/": what the class [^/] of phase3.py:19 admits
NoSlash(piece) == piece \notin {"/", GitHub}

\* text[p..p+3] starts with the literal "/pull/" followed by a digit
PullAt(text, p) ==
    /\ p + 3 <= Len(text)
    /\ text[p] = "/" /\ text[p + 1] = "pull" /\ text[p + 2] = "/"
    /\ IsDigit(text[p + 3])

\* the last position of the run of digits of text that starts at position p
RECURSIVE DigitsEnd(_, _)
DigitsEnd(text, p) ==
    IF p < Len(text) /\ IsDigit(text[p + 1]) THEN DigitsEnd(text, p + 1) ELSE p

\* utils.py:74, where "/pull/" may start in a match of
\* https://github\.com/[^\s)]+/pull/\d+ that starts at position i
PrUrlPulls(text, i) ==
    IF text[i] # GitHub THEN {}
    ELSE { p \in (i + 2)..Len(text) :
              /\ PullAt(text, p)
              /\ \A k \in (i + 1)..(p - 1) : ~IsBreak(text[k]) }

\* the largest member of a non-empty set of numbers
Max(S) == CHOOSE m \in S : \A n \in S : n <= m

\* the smallest member of a non-empty set of numbers
Min(S) == CHOOSE m \in S : \A n \in S : m <= n

\* a str | None that is None.  A match of the pattern is never empty, so the
\* empty text stands for None; "if pr_url" is false for both.
NoUrl == <<>>

\* utils.py:72-75, re.search: the leftmost match, its [^\s)]+ as long as it can
\* be, its \d+ as long as it can be; None when nothing matches
extract_pr_url(text) ==
    LET starts == { i \in 1..Len(text) : PrUrlPulls(text, i) # {} }
    IN  IF starts = {} THEN NoUrl
        ELSE LET i == Min(starts)
                 p == Max(PrUrlPulls(text, i))
             IN  SubSeq(text, i, DigitsEnd(text, p + 3))

\* utils.py:61-69, the texts of the TextBlocks of a response joined by "\n"
\* (a response is given as the sequence of its TextBlock texts)
RECURSIVE extract_text(_)
extract_text(messages) ==
    IF messages = <<>> THEN <<>>
    ELSE IF Len(messages) = 1 THEN messages[1]
    ELSE messages[1] \o <<"\n">> \o extract_text(Tail(messages))

\* phase3.py:19, re.match of https://github\.com/([^/]+/[^/]+)/pull/(\d+)
PrRefMatch(pr_url) ==
    /\ pr_url # <<>>
    /\ pr_url[1] = GitHub
    /\ \E s1 \in 3..Len(pr_url), s2 \in 5..Len(pr_url) :
          /\ s1 + 1 < s2
          /\ pr_url[s1] = "/"
          /\ \A k \in 2..(s1 - 1) : NoSlash(pr_url[k])
          /\ \A k \in (s1 + 1)..(s2 - 1) : NoSlash(pr_url[k])
          /\ PullAt(pr_url, s2)

(***************************************************************************)
(* Responses of the agent to a turn: the texts of its TextBlocks, in order. *)
(***************************************************************************)
Url1 == <<GitHub, "o", "/", "o", "/", "pull", "/", "1">>
Url2 == <<GitHub, "o", "/", "o", "/", "pull", "/", "2">>
\* a reference with one path segment before /pull/
UrlOneSegment == <<GitHub, "o", "/", "pull", "/", "1">>

TurnResponses ==
    { <<>>,                                          \* no text at all
      << <<"o">> >>,                                 \* text without a reference
      << <<"o", " ">> \o Url1 >>,
      << <<"o">>, <<"(">> \o Url2 \o <<")", " ", "o">> >>,
      << Url1 \o <<"\n">> \o Url2 >>,                \* two references
      << <<GitHub, "o", "/", "o">>, <<"/", "pull", "/", "1">> >>,  \* cut in two
      << UrlOneSegment >> }

(***************************************************************************)
(* A dict is the sequence of its items in insertion order.                 *)
(***************************************************************************)
DictKeys(d) == { d[i].label : i \in DOMAIN d }

DictGet(d, label) == (CHOOSE i \in DOMAIN d : d[i].label = label)

\* d[label] = url: an existing key keeps its place, a new one goes last
DictSet(d, label, url) ==
    IF label \in DictKeys(d)
    THEN [d EXCEPT ![DictGet(d, label)] = [label |-> label, url |-> url]]
    ELSE Append(d, [label |-> label, url |-> url])

\* faulty variant: the key is not deleted
DictKeep(d, label) == d

\* del d[label]
DictDel(d, label) == SelectSeq(d, LAMBDA item : item.label # label)

(***************************************************************************)
(* The pipeline: main.py, phase1.py, phase2.py.                             *)
(* A session is at "created" (its code has not run), "ready" (connected,    *)
(* about to issue a turn), "draining" (inside collect_response), "closing"  *)
(* (leaving the async with block), "returned" or "raised".                  *)
(***************************************************************************)
\* the variables of the job server
serverVars == <<jobs, tasks, request, response, streamVars>>

Phase1Session == "api-types"
SubSessions == <<"controller", "e2e-tests">>
Settled(s) == sess[s].pc \in {"returned", "raised"}

\* turn counts the turns issued and drained the responses collect_response
\* has returned; texts holds extract_text of each response a sub-session has
\* drained (its variable text), pr_url is its variable pr_url; the excerpts
\* phase 1 keeps for its summary are left out
NewSession ==
    [pc |-> "created", turn |-> 0, drained |-> 0, texts |-> <<>>, pr_url |-> NoUrl]

\* the path phase 1 finds for the clone
RepoPath == "repo"

\* an int | None that is None; the int n is <<n>>
NoInt == <<>>

\* phase3.run(state), main.py:69: both arguments take their default, None
DefaultCall == [max_wait_mins |-> NoInt, poll_secs |-> NoInt]

\* main.py:48-59 and phase1.py:19-44: the WorkflowState is built, phase1.run is
\* called, makes its workdir and opens its session; an error there leaves
\* run_workflow
Phase1Start(ok) ==
    /\ phase = "idle"
    /\ state' = [repo_local_path |-> "", pr_urls |-> <<>>]
    /\ IF ok
       THEN /\ phase' = "phase1"
            /\ sess' = (Phase1Session :> [NewSession EXCEPT !.pc = "ready"])
       ELSE /\ phase' = "raised"
            /\ sess' = (Phase1Session :> [NewSession EXCEPT !.pc = "raised"])
    /\ UNCHANGED <<turns, outcome, watchVars, serverVars>>

\* the number of scripted turns of phase 1 (phase1.py:47, 62, 70, 79, 90)
Phase1Turns == 5

\* faulty variant: the next turn is sent without awaiting collect_response
MayQueryUndrained(session) == session.pc \in {"ready", "draining"}

\* phase1.py:48, 65, 74, 85: each query is followed by an awaited
\* collect_response, so the next query is reached only when it has returned
MayQuery(session) == session.pc = "ready"

\* phase1.py:47, 62, 70, 79, 90: await client.query(...) of the next turn
Phase1Query(ok) ==
    LET s == Phase1Session
    IN  /\ phase = "phase1"
        /\ MayQuery(sess[s])
        /\ IF ok
           THEN /\ turns' = Append(turns, <<s, sess[s].turn + 1>>)
                /\ sess' = [sess EXCEPT ![s].pc = "draining", ![s].turn = @ + 1]
                /\ UNCHANGED phase
           ELSE /\ sess' = [sess EXCEPT ![s].pc = "raised"]
                /\ phase' = "raised"
                /\ UNCHANGED turns
        /\ UNCHANGED <<state, outcome, watchVars, serverVars>>

\* phase1.py:102-106, what phase 1 does with the response to the PR turn
Phase1Extract(response1) ==
    LET pr_url == extract_pr_url(extract_text(response1))
    IN  /\ sess' = [sess EXCEPT ![Phase1Session].pc = "closing",
                                ![Phase1Session].drained = @ + 1,
                                ![Phase1Session].pr_url = pr_url]
        /\ state' = IF pr_url # NoUrl
                    THEN [state EXCEPT !.pr_urls = DictSet(@, "api-types", pr_url)]
                    ELSE state

\* phase1.py:48-58, 65-66, 74-75, 85, 102-106: collect_response returns the
\* drained response, or the stream raises and the error leaves run_workflow.
\* After turn 1 the clone is looked up in the workdir (found or not); after
\* turn 5 the reference is extracted.
Phase1Drained(response1, ok, found) ==
    LET s == Phase1Session
    IN  /\ phase = "phase1"
        /\ sess[s].pc = "draining"
        /\ IF ~ok
           THEN /\ sess' = [sess EXCEPT ![s].pc = "raised"]
                /\ phase' = "raised"
                /\ UNCHANGED state
           ELSE /\ UNCHANGED phase
                /\ IF sess[s].turn = 1
                   THEN /\ state' = [state EXCEPT !.repo_local_path =
                                         IF found THEN RepoPath ELSE ""]
                        /\ sess' = [sess EXCEPT ![s].pc = "ready",
                                                ![s].drained = @ + 1]
                   ELSE IF sess[s].turn < Phase1Turns
                   THEN /\ sess' = [sess EXCEPT ![s].pc = "ready",
                                                ![s].drained = @ + 1]
                        /\ UNCHANGED state
                   ELSE Phase1Extract(response1)
        /\ UNCHANGED <<turns, outcome, watchVars, serverVars>>

\* faulty variant: run_workflow goes on to phase 2 whatever phase 1 found
AfterPhase1NoAbort ==
    /\ phase' = "phase2"
    /\ sess' = [sess EXCEPT ![Phase1Session].pc = "returned"]
               @@ [s \in {SubSessions[1], SubSessions[2]} |-> NewSession]

\* main.py:61-66, after phase1.run returned: abort, or call phase2.run, which
\* hands both sub-sessions to asyncio.gather (phase2.py:183-187)
AfterPhase1 ==
    IF state.repo_local_path = ""
    THEN /\ phase' = "aborted"
         /\ sess' = [sess EXCEPT ![Phase1Session].pc = "returned"]
    ELSE /\ phase' = "phase2"
         /\ sess' = [sess EXCEPT ![Phase1Session].pc = "returned"]
                    @@ [s \in {SubSessions[1], SubSessions[2]} |-> NewSession]

\* phase1.py:44, 108-137: the session is closed and the summary written (either
\* may raise), phase1.run returns and run_workflow goes on
Phase1Return(ok) ==
    /\ phase = "phase1"
    /\ sess[Phase1Session].pc = "closing"
    /\ IF ok
       THEN AfterPhase1
       ELSE /\ phase' = "raised"
            /\ sess' = [sess EXCEPT ![Phase1Session].pc = "raised"]
    /\ UNCHANGED <<state, turns, outcome, watchVars, serverVars>>

\* the label a sub-session stores its reference under (phase2.py:94, 167)
\* is its own name
SubLabel(s) == s

\* phase2.py:34-66 and 106-138: the sub-session makes its workdir, copies the
\* phase-1 summary and opens its session; an error there ends its task.  The
\* tasks of gather start in argument order.
SubStart(s, ok) ==
    /\ phase = "phase2"
    /\ sess[s].pc = "created"
    /\ s = SubSessions[2] => sess[SubSessions[1]].pc # "created"
    /\ sess' = [sess EXCEPT ![s].pc = IF ok THEN "ready" ELSE "raised"]
    /\ UNCHANGED <<state, phase, turns, outcome, watchVars, serverVars>>

\* phase2.py:68-72, 78-81 and 140-145, 151-154: await client.query(...) of
\* the first turn or of the follow-up turn
SubQuery(s, ok) ==
    /\ phase = "phase2"
    /\ sess[s].pc = "ready"
    /\ IF ok
       THEN /\ turns' = Append(turns, <<s, sess[s].turn + 1>>)
            /\ sess' = [sess EXCEPT ![s].pc = "draining", ![s].turn = @ + 1]
       ELSE /\ sess' = [sess EXCEPT ![s].pc = "raised"]
            /\ UNCHANGED turns
    /\ UNCHANGED <<state, phase, outcome, watchVars, serverVars>>

\* faulty variant: the follow-up turn is issued whatever the first turn gave
FollowUpAlways(turn, pr_url) == turn = 1

\* phase2.py:77 and 150, "if not pr_url": the follow-up turn is due after the
\* first turn only
FollowUpDue(turn, pr_url) == turn = 1 /\ pr_url = NoUrl

\* phase2.py:73-77, 82-84 and 146-150, 155-157: collect_response returns the
\* drained response and the reference is extracted from its text, or the
\* stream raises and ends the task
SubDrained(s, response1, ok) ==
    /\ phase = "phase2"
    /\ sess[s].pc = "draining"
    /\ IF ~ok
       THEN sess' = [sess EXCEPT ![s].pc = "raised"]
       ELSE LET text == extract_text(response1)
                pr_url == extract_pr_url(text)
            IN  sess' = [sess EXCEPT
                           ![s].drained = @ + 1,
                           ![s].texts = Append(@, text),
                           ![s].pr_url = pr_url,
                           ![s].pc = IF FollowUpDue(sess[s].turn, pr_url)
                                     THEN "ready" ELSE "closing"]
    /\ UNCHANGED <<state, phase, turns, outcome, watchVars, serverVars>>

\* phase2.py:66, 86-96 and 138, 159-169: the session is closed and the summary
\* written (either may raise and end the task); then the reference, if any, is
\* stored under the sub-session's label and returned
SubReturn(s, ok) ==
    /\ phase = "phase2"
    /\ sess[s].pc = "closing"
    /\ IF ok
       THEN /\ sess' = [sess EXCEPT ![s].pc = "returned"]
            /\ state' = IF sess[s].pr_url # NoUrl
                        THEN [state EXCEPT
                                !.pr_urls = DictSet(@, SubLabel(s), sess[s].pr_url)]
                        ELSE state
       ELSE /\ sess' = [sess EXCEPT ![s].pc = "raised"]
            /\ UNCHANGED state
    /\ UNCHANGED <<phase, turns, outcome, watchVars, serverVars>>

\* phase2.py:189, the labels of the report, in the order of the sub-sessions
ReportLabels == <<"Controller", "E2E Tests">>

\* faulty variant: the result of a task is only tested for truth, and an
\* exception object is true
ReportLineUntyped(settled) ==
    IF settled.pc = "raised" \/ settled.pr_url # NoUrl THEN "PR"
    ELSE "no PR URL captured"

\* phase2.py:191-196, the line printed for a settled sub-session.  gather
\* with return_exceptions = True hands back the exception a task raised.
ReportLine(settled) ==
    IF settled.pc = "raised" THEN "failed"
    ELSE IF settled.pr_url # NoUrl THEN "PR"
    ELSE "no PR URL captured"

\* faulty variant: gather without return_exceptions, which hands the first
\* exception to its caller at once
GatherFirstException ==
    \/ \E i \in DOMAIN SubSessions : sess[SubSessions[i]].pc = "raised"
    \/ \A i \in DOMAIN SubSessions : Settled(SubSessions[i])

\* gather of phase2.py:183 has every result
GatherDone == \A i \in DOMAIN SubSessions : Settled(SubSessions[i])

\* phase2.py:183-196 and main.py:69: gather returns once both tasks are done,
\* each label is reported, phase2.run returns and run_workflow calls
\* phase3.run(state)
Phase2Return ==
    /\ phase = "phase2"
    /\ GatherDone
    /\ outcome' = [label \in {ReportLabels[i] : i \in DOMAIN ReportLabels} |->
                     LET i == CHOOSE k \in DOMAIN ReportLabels : ReportLabels[k] = label
                     IN  ReportLine(sess[SubSessions[i]])]
    /\ phase' = "phase3"
    /\ call' = DefaultCall
    /\ wpc' = "called"
    /\ UNCHANGED <<state, sess, turns, clock, remaining, passed, failed, round,
                   polled, report, serverVars>>

(***************************************************************************)
(* The CI watcher: phase3.py.  Time is counted in seconds and passes only   *)
(* inside subprocess.run and asyncio.sleep.                                 *)
(***************************************************************************)
\* config.py:19
POLL_INTERVAL_SECS == 60
\* config.py:20
MAX_CI_WAIT_MINS == 120
\* phase3.py:34, timeout = 30
GhTimeoutSecs == 30

\* Python's "x or default" for an int | None
OrDefault(x, default) == IF x = NoInt \/ x[1] = 0 THEN default ELSE x[1]

\* phase3.py:78
WaitMins == OrDefault(call.max_wait_mins, MAX_CI_WAIT_MINS)
\* phase3.py:79
IntervalSecs == OrDefault(call.poll_secs, POLL_INTERVAL_SECS)

\* a check of statusCheckRollup; a key the item lacks reads as None (c.get)
Check(status, conclusion) == [status |-> status, conclusion |-> conclusion]

CheckLists ==
    { <<>>,
      << Check("COMPLETED", "SUCCESS") >>,
      << Check("COMPLETED", "SUCCESS"), Check("COMPLETED", "NEUTRAL") >>,
      << Check("COMPLETED", "SKIPPED") >>,
      << Check("COMPLETED", "SUCCESS"), Check("COMPLETED", "FAILURE") >>,
      << Check("IN_PROGRESS", None) >>,
      << Check("COMPLETED", "SUCCESS"), Check("QUEUED", None) >> }

PrStates == {"OPEN", "CLOSED"}

\* what one run of gh can come to: it prints the JSON object data and exits
\* with 0, exits with another code, prints something json.loads rejects,
\* does not end within the timeout, or cannot be run at all
GhReplies ==
    { [kind |-> "ok", state |-> st, checks |-> checks] :
         st \in PrStates, checks \in CheckLists }
    \cup { [kind |-> k] : k \in {"exit", "json", "timeout", "oserror"} }

\* the seconds a run of gh may take
GhDurations(reply) ==
    IF reply.kind = "timeout" THEN {GhTimeoutSecs} ELSE {0, GhTimeoutSecs}

\* phase3.py:42-46
all_pass(checks) ==
    \A i \in DOMAIN checks :
        checks[i].status = "COMPLETED"
            => checks[i].conclusion \in {"SUCCESS", "NEUTRAL", "SKIPPED"}

\* faulty variant: an empty list of checks counts as complete
AllCompleteOrEmpty(checks) ==
    \A i \in DOMAIN checks : checks[i].status = "COMPLETED"

\* phase3.py:47-49
all_complete(checks) ==
    Len(checks) > 0 /\ \A i \in DOMAIN checks : checks[i].status = "COMPLETED"

\* faulty variant: a query that fails counts as a closed pull request
CheckPrStatusErrorCloses(pr_url, reply) ==
    IF ~PrRefMatch(pr_url) \/ reply.kind # "ok"
    THEN [state |-> "CLOSED", checks_pass |-> FALSE]
    ELSE [state |-> reply.state,
          checks_pass |-> all_pass(reply.checks) /\ all_complete(reply.checks)]

\* phase3.py:17-65, the fields of the status that phase3.run reads
_check_pr_status(pr_url, reply) ==
    IF ~PrRefMatch(pr_url) THEN [state |-> "unknown", checks_pass |-> FALSE]
    ELSE IF reply.kind # "ok" THEN [state |-> "error", checks_pass |-> FALSE]
    ELSE [state |-> reply.state,
          checks_pass |-> all_pass(reply.checks) /\ all_complete(reply.checks)]

\* phase3.py:74-90: nothing to watch and phase3.run returns at once, or the
\* loop variables are set
Phase3Start ==
    /\ wpc = "called"
    /\ IF state.pr_urls = <<>>
       THEN /\ wpc' = "returned"
            /\ phase' = "done"
            /\ UNCHANGED <<clock, remaining, passed, failed>>
       ELSE /\ wpc' = "loop"
            /\ clock' = 0
            /\ remaining' = state.pr_urls
            /\ passed' = <<>>
            /\ failed' = <<>>
            /\ UNCHANGED phase
    /\ UNCHANGED <<state, sess, turns, outcome, call, round, polled, report,
                   serverVars>>

\* faulty variant: every round visits all the references it was given
SnapshotAll == state.pr_urls

\* phase3.py:93, list(remaining.items())
Snapshot == remaining

\* phase3.py:92-93, the test of the while loop and the snapshot of a round
LoopTest ==
    /\ wpc = "loop"
    /\ IF remaining # <<>> /\ clock < WaitMins * 60
       THEN /\ wpc' = "round"
            /\ round' = Snapshot
       ELSE /\ wpc' = "report"
            /\ UNCHANGED round
    /\ UNCHANGED <<pipeVars, call, clock, remaining, passed, failed, polled,
                   report, serverVars>>

\* phase3.py:97-110, where the reference goes for a status
Classify(status) ==
    IF status.checks_pass THEN "passed"
    ELSE IF status.state = "CLOSED" THEN "closed"
    ELSE "waiting"

\* phase3.py:94-112: the next reference of the round is queried (gh takes
\* secs seconds; an unparseable reference is not queried) and classified;
\* after the last one the loop sleeps if a reference remains
Poll(reply, secs) ==
    /\ wpc = "round"
    /\ round # <<>>
    /\ polled' = [label |-> Head(round).label,
                   reply |-> IF PrRefMatch(Head(round).url) THEN reply ELSE NoReply]
    /\ LET item == Head(round)
           to == Classify(_check_pr_status(item.url, reply))
           left == IF to = "waiting" THEN remaining ELSE DictDel(remaining, item.label)
       IN  /\ clock' = IF PrRefMatch(item.url) THEN clock + secs ELSE clock
           /\ remaining' = left
           /\ passed' = IF to = "passed"
                        THEN DictSet(passed, item.label, item.url) ELSE passed
           /\ failed' = IF to = "closed"
                        THEN DictSet(failed, item.label, item.url) ELSE failed
           /\ round' = Tail(round)
           /\ wpc' = IF Tail(round) # <<>> THEN "round"
                     ELSE IF left # <<>> THEN "sleeping" ELSE "loop"
    /\ UNCHANGED <<pipeVars, call, report, serverVars>>

\* phase3.py:113, asyncio.sleep(interval) is over
Slept ==
    /\ wpc = "sleeping"
    /\ clock' = clock + IntervalSecs
    /\ wpc' = "loop"
    /\ UNCHANGED <<pipeVars, call, remaining, passed, failed, round, polled,
                   report, serverVars>>

\* the labels of a dict, in its order (dict.keys())
RECURSIVE DictLabels(_)
DictLabels(d) == IF d = <<>> THEN <<>> ELSE <<Head(d).label>> \o DictLabels(Tail(d))

\* phase3.py:115-158: the final report is printed (120-133) and the summary
\* with the same three lists is written (136-157; an error there leaves
\* run_workflow); phase3.run returns
Report(ok) ==
    /\ wpc = "report"
    /\ report' = [printed |-> TRUE, written |-> ok,
                  passed |-> DictLabels(passed), failed |-> DictLabels(failed),
                  timed_out |-> DictLabels(remaining)]
    /\ wpc' = IF ok THEN "reported" ELSE "raised"
    /\ phase' = IF ok THEN "done" ELSE "raised"
    /\ UNCHANGED <<state, sess, turns, outcome, call, clock, remaining, passed,
                   failed, round, polled, serverVars>>

(***************************************************************************)
(* The specifications of the command-line program.                          *)
(***************************************************************************)
\* the job server is not involved
ServerIdle ==
    /\ jobs = <<>>
    /\ tasks = <<>>
    /\ request = NoRequest
    /\ response = NoResponse
    /\ StreamIdle

PipelineInit == ServerIdle /\ CliIdle

PipelineNext ==
    \/ \E ok \in BOOLEAN : Phase1Start(ok)
    \/ \E ok \in BOOLEAN : Phase1Query(ok)
    \/ \E response1 \in TurnResponses, ok \in BOOLEAN, found \in BOOLEAN :
          Phase1Drained(response1, ok, found)
    \/ \E ok \in BOOLEAN : Phase1Return(ok)
    \/ \E i \in DOMAIN SubSessions, ok \in BOOLEAN : SubStart(SubSessions[i], ok)
    \/ \E i \in DOMAIN SubSessions, ok \in BOOLEAN : SubQuery(SubSessions[i], ok)
    \/ \E i \in DOMAIN SubSessions, response1 \in TurnResponses, ok \in BOOLEAN :
          SubDrained(SubSessions[i], response1, ok)
    \/ \E i \in DOMAIN SubSessions, ok \in BOOLEAN : SubReturn(SubSessions[i], ok)
    \/ Phase2Return
    \/ Phase3Start

\* run_workflow from its start to the point where phase3.run has set up its
\* loop; the loop itself is the subject of WatcherSpec
PipelineSpec == PipelineInit /\ [][PipelineNext]_vars

\* PipelineSpec where the event loop keeps running what is ready and every
\* awaited call of the agent comes back (with a result or an error)
PipelineFairSpec == PipelineSpec /\ WF_vars(PipelineNext)

Item(label, url) == [label |-> label, url |-> url]

\* the label-to-reference mappings the watcher is started with
WatchMaps ==
    { <<>>,
      << Item("api-types", Url1) >>,
      << Item("controller", UrlOneSegment) >>,
      << Item("api-types", Url1), Item("e2e-tests", Url2) >>,
      << Item("api-types", Url2), Item("e2e-tests", UrlOneSegment),
         Item("controller", Url1) >> }

\* the arguments the watcher is started with besides the default ones
ShortCalls ==
    { [max_wait_mins |-> <<1>>, poll_secs |-> <<30>>],
      [max_wait_mins |-> <<2>>, poll_secs |-> <<0>>] }
ZeroWaitCall == [max_wait_mins |-> <<0>>, poll_secs |-> NoInt]

\* the calls of phase3.run that are followed: every mapping with the short
\* waits, and the waits of two hours with one and with two references
WatchRuns ==
    { <<m, c>> : m \in WatchMaps, c \in ShortCalls }
    \cup { << << Item("api-types", Url1) >>, ZeroWaitCall >>,
           << << Item("api-types", Url1), Item("e2e-tests", Url2) >>, DefaultCall >> }

\* phase3.run has been called
WatcherInit ==
    /\ ServerIdle
    /\ \E run \in WatchRuns :
          /\ state = [repo_local_path |-> RepoPath, pr_urls |-> run[1]]
          /\ call = run[2]
    /\ phase = "phase3"
    /\ wpc = "called"
    /\ sess = <<>>
    /\ turns = <<>>
    /\ outcome = <<>>
    /\ clock = 0
    /\ remaining = <<>>
    /\ passed = <<>>
    /\ failed = <<>>
    /\ round = <<>>
    /\ polled = NoPoll
    /\ report = NoReport

WatcherNext ==
    \/ Phase3Start
    \/ LoopTest
    \/ \E reply \in GhReplies : \E secs \in GhDurations(reply) : Poll(reply, secs)
    \/ Slept
    \/ \E ok \in BOOLEAN : Report(ok)

WatcherSpec == WatcherInit /\ [][WatcherNext]_vars

\* WatcherSpec where a started gh comes to an end (it is stopped after
\* GhTimeoutSecs), a sleep is over after its interval and phase3.run is
\* not starved
WatcherFairSpec == WatcherSpec /\ WF_vars(WatcherNext)

(***************************************************************************)
(* Claims about the pipeline (checked under PipelineSpec).                  *)
(***************************************************************************)
Phase1Returned == Phase1Session \in DOMAIN sess /\ sess[Phase1Session].pc = "returned"
SubStarted == \E i \in DOMAIN SubSessions : SubSessions[i] \in DOMAIN sess
Phase2Returned == outcome # <<>>

\* C12: phase 2 starts only after phase 1 has returned and phase 3 only after
\* phase 2 has returned, so every turn of phase 1 precedes every turn of a
\* sub-session; when phase 1 returns with the repository path unset the run
\* is aborted, no sub-session exists, no turn of a sub-session has been
\* issued and phase3.run is never called.
C12_PhasesInOrder ==
    /\ SubStarted => Phase1Returned /\ state.repo_local_path # ""
    /\ wpc # "idle" => Phase1Returned /\ SubStarted /\ GatherDone /\ Phase2Returned
    /\ \A i, j \in DOMAIN turns :
          i < j /\ turns[j][1] = Phase1Session => turns[i][1] = Phase1Session
    /\ Phase1Returned /\ state.repo_local_path = "" => phase = "aborted"
    /\ phase = "aborted" =>
          /\ Phase1Returned /\ state.repo_local_path = ""
          /\ ~SubStarted
          /\ \A i \in DOMAIN turns : turns[i][1] = Phase1Session
          /\ wpc = "idle"

\* a run that aborted after the five turns of phase 1
C12_Witness ==
    /\ phase = "aborted"
    /\ turns = [i \in 1..Phase1Turns |-> <<Phase1Session, i>>]
    /\ state.repo_local_path = ""

Other(s) == IF s = SubSessions[1] THEN SubSessions[2] ELSE SubSessions[1]
BothSettled == \A i \in DOMAIN SubSessions : Settled(SubSessions[i])

\* C13: the step in which one sub-session raises leaves the other sub-session
\* as it is and leaves the run in phase 2; the other sub-session then still
\* settles by its own steps; and phase3.run is called only when both
\* sub-sessions have settled.
C13_FanOutIsolated ==
    /\ [][\A i \in DOMAIN SubSessions :
            LET s == SubSessions[i]
            IN  SubStarted /\ sess[s].pc # "raised" /\ sess'[s].pc = "raised"
                   => sess'[Other(s)] = sess[Other(s)] /\ phase' = "phase2"]_vars
    /\ \A i \in DOMAIN SubSessions :
          LET s == SubSessions[i]
          IN  (SubStarted /\ sess[s].pc = "raised" /\ ~Settled(Other(s)))
                 ~> (SubStarted /\ Settled(Other(s)) /\ sess[s].pc = "raised")
    /\ [](SubStarted /\ ~BothSettled => phase = "phase2" /\ wpc = "idle")

\* the controller raised during its first turn, the e2e tests went on to
\* return a reference after that, and only then phase 3 was entered
C13_Witness ==
    /\ wpc = "loop"
    /\ sess["controller"].pc = "raised"
    /\ sess["e2e-tests"].pc = "returned"
    /\ turns[Len(turns)][1] = "e2e-tests"
    /\ outcome["Controller"] = "failed"
    /\ outcome["E2E Tests"] = "PR"

\* C14: once phase 2 has reported, each of the two labels has one line:
\* "failed" exactly when its sub-session raised, "PR" exactly when it
\* returned a reference, "no PR URL captured" exactly when it returned
\* without one; and the run has gone on to phase 3 in every such case.
C14_OneOutcomePerLabel ==
    Phase2Returned =>
        /\ DOMAIN outcome = {ReportLabels[i] : i \in DOMAIN ReportLabels}
        /\ \A i \in DOMAIN SubSessions :
              LET settled == sess[SubSessions[i]]
                  line == outcome[ReportLabels[i]]
              IN  /\ line \in {"failed", "PR", "no PR URL captured"}
                  /\ line = "failed" <=> settled.pc = "raised"
                  /\ line = "PR" <=> settled.pc = "returned" /\ settled.pr_url # NoUrl
                  /\ line = "no PR URL captured"
                        <=> settled.pc = "returned" /\ settled.pr_url = NoUrl
        /\ phase \in {"phase3", "done"}
        /\ wpc # "idle"

\* one sub-session returned without a reference after its follow-up turn, the
\* other raised, and phase 3 was entered
C14_Witness ==
    /\ Phase2Returned
    /\ outcome["Controller"] = "no PR URL captured"
    /\ sess["controller"].turn = 2
    /\ outcome["E2E Tests"] = "failed"
    /\ wpc = "returned"

\* C15: a sub-session issues at most two turns and no turn twice; it issues
\* the follow-up turn only when nothing was extracted from the text of its
\* first turn, and it never leaves its session after the first turn without
\* a reference; the reference it leaves with is the one extracted from the
\* text of its last turn; and a sub-session that returns without a reference
\* has issued both turns and stores nothing under its label.
C15_OneFollowUp ==
    /\ \A i, j \in DOMAIN turns : i < j => turns[i] # turns[j]
    /\ SubStarted =>
          \A i \in DOMAIN SubSessions :
             LET sub == sess[SubSessions[i]]
             IN  /\ sub.turn <= 2
                 /\ Len(sub.texts) <= sub.turn
                 /\ sub.turn = 2 =>
                       Len(sub.texts) >= 1 /\ extract_pr_url(sub.texts[1]) = NoUrl
                 /\ sub.pc \in {"closing", "returned"} =>
                       /\ Len(sub.texts) = sub.turn
                       /\ sub.turn \in {1, 2}
                       /\ sub.pr_url = extract_pr_url(sub.texts[sub.turn])
                       /\ sub.turn = 1 => sub.pr_url # NoUrl
                 /\ sub.pc = "returned" /\ sub.pr_url = NoUrl =>
                       /\ sub.turn = 2
                       /\ SubLabel(SubSessions[i]) \notin DictKeys(state.pr_urls)

\* the e2e tests found no reference in either turn and returned without one
C15_Witness ==
    /\ SubStarted
    /\ sess["e2e-tests"].pc = "returned"
    /\ sess["e2e-tests"].turn = 2
    /\ sess["e2e-tests"].pr_url = NoUrl
    /\ Len(sess["e2e-tests"].texts) = 2
    /\ <<"e2e-tests", 2>> = turns[Len(turns)]

\* C16: when phase 1 leaves its session without a reference, nothing having
\* been extracted from the text of the PR turn (turn 5), it has issued one
\* follow-up turn (a sixth turn) on that session before.
C16_Phase1FollowUp ==
    Phase1Session \in DOMAIN sess =>
        LET p1 == sess[Phase1Session]
        IN  p1.pc \in {"closing", "returned"} /\ p1.pr_url = NoUrl
               => p1.turn = Phase1Turns + 1
                     /\ turns[Len(turns)] = <<Phase1Session, Phase1Turns + 1>>

(***************************************************************************)
(* Claims about the CI watcher (checked under WatcherSpec).                 *)
(***************************************************************************)
\* a step of phase3.run that queries the next reference of the round
PollStep == wpc = "round" /\ round # <<>>

\* the reply has at least one check, every check is COMPLETED and every
\* conclusion is SUCCESS, NEUTRAL or SKIPPED
Green(reply) ==
    /\ reply.kind = "ok"
    /\ Len(reply.checks) >= 1
    /\ \A i \in DOMAIN reply.checks :
          /\ reply.checks[i].status = "COMPLETED"
          /\ reply.checks[i].conclusion \in {"SUCCESS", "NEUTRAL", "SKIPPED"}

SuccessNeutral == << Check("COMPLETED", "SUCCESS"), Check("COMPLETED", "NEUTRAL") >>

\* C17: the reference queried by a poll is pending before it, and it is in
\* passed after the poll exactly when the reply to that poll has at least one
\* check, all checks COMPLETED and all conclusions SUCCESS, NEUTRAL or
\* SKIPPED; in that case it is no longer pending.  So a reply with no checks
\* never moves it to passed, and [COMPLETED/SUCCESS, COMPLETED/NEUTRAL] does.
C17_PassedIffGreen ==
    [][PollStep =>
          LET label == Head(round).label
          IN  /\ polled'.label = label
              /\ label \in DictKeys(remaining) /\ label \notin DictKeys(passed)
              /\ label \in DictKeys(passed') <=> Green(polled'.reply)
              /\ Green(polled'.reply) => label \notin DictKeys(remaining')
              /\ polled'.reply.kind = "ok" /\ polled'.reply.checks = <<>>
                    => label \notin DictKeys(passed')
              /\ polled'.reply.kind = "ok" /\ polled'.reply.checks = SuccessNeutral
                    => label \in DictKeys(passed')]_vars

\* after a minute or more a pending reference has just passed on the reply
\* [COMPLETED/SUCCESS, COMPLETED/NEUTRAL] while another one is still pending
C17_Witness ==
    /\ clock >= 60
    /\ polled.reply.kind = "ok"
    /\ polled.reply.checks = SuccessNeutral
    /\ polled.label = "e2e-tests"
    /\ "e2e-tests" \in DictKeys(passed)
    /\ "api-types" \in DictKeys(remaining)

\* C18: a poll of a pending reference whose reply has state CLOSED moves the
\* reference to closed (the dict failed) and out of the pending ones,
\* whatever the checks of that reply are.
C18_ClosedWins ==
    [][PollStep /\ polled'.reply.kind = "ok" /\ polled'.reply.state = "CLOSED" =>
          LET label == Head(round).label
          IN  /\ label \in DictKeys(failed')
              /\ label \notin DictKeys(passed')
              /\ label \notin DictKeys(remaining')]_vars

Classified == DictKeys(passed) \cup DictKeys(failed)

\* C19: a reference that is in passed or in closed stays there with its url
\* and never becomes pending again; a poll queries a reference that is
\* pending and in neither of them; and what is left of a round's snapshot
\* holds pending references only.
C19_PassedClosedAbsorbing ==
    /\ [][/\ \A i \in DOMAIN passed : \E j \in DOMAIN passed' : passed'[j] = passed[i]
          /\ \A i \in DOMAIN failed : \E j \in DOMAIN failed' : failed'[j] = failed[i]
          /\ \A label \in Classified : label \notin DictKeys(remaining')
          /\ PollStep => /\ Head(round).label \in DictKeys(remaining)
                         /\ Head(round).label \notin Classified
                         /\ polled'.label = Head(round).label]_vars
    /\ [](\A i \in DOMAIN round : round[i].label \in DictKeys(remaining) \ Classified)

\* api-types passed, controller was closed, and two minutes later only
\* e2e-tests is still queried
C19_Witness ==
    /\ DictKeys(passed) = {"api-types"}
    /\ DictKeys(failed) = {"controller"}
    /\ DictKeys(remaining) = {"e2e-tests"}
    /\ polled.label = "e2e-tests"
    /\ clock >= 120
    /\ wpc = "sleeping"

\* the query failed: the reference was not parseable, gh exited with an
\* error, printed no JSON, ran into the timeout or could not be run
FailureKinds == {"none", "exit", "json", "timeout", "oserror"}

\* C20: a poll whose query fails leaves the pending references, passed and
\* closed as they were and leaves phase3.run inside its loop (visiting the
\* rest of the round or sleeping); every round that starts afterwards visits
\* all the pending references, the one whose query failed included; and
\* the loop does end and goes on to the final report.
C20_FailedQueryStaysPending ==
    /\ [][/\ PollStep /\ polled'.reply.kind \in FailureKinds =>
                /\ remaining' = remaining
                /\ passed' = passed
                /\ failed' = failed
                /\ Head(round).label \in DictKeys(remaining')
                /\ wpc' \in {"round", "sleeping"}
          /\ wpc = "sleeping" => wpc' = "loop" /\ remaining' = remaining
          /\ wpc = "loop" /\ clock < WaitMins * 60 /\ remaining # <<>> =>
                wpc' = "round" /\ round' = remaining]_vars
    /\ (polled.label # "" /\ polled.reply.kind \in FailureKinds
           /\ wpc \in {"round", "sleeping", "loop"}) ~> (wpc = "report")

\* gh exited with an error for api-types in a round in which e2e-tests
\* passed; api-types is still pending and the loop sleeps until the next round
C20_Witness ==
    /\ polled.label = "api-types"
    /\ polled.reply.kind = "exit"
    /\ "api-types" \in DictKeys(remaining)
    /\ "e2e-tests" \in DictKeys(passed)
    /\ clock >= 60
    /\ wpc = "sleeping"

\* the maximum wait phase3.run was called with, in seconds (the default when
\* the argument is None)
MaxWaitSecs ==
    60 * (IF call.max_wait_mins = NoInt THEN MAX_CI_WAIT_MINS
          ELSE call.max_wait_mins[1])

InLoop == wpc \in {"loop", "round", "sleeping"}

\* C21: the wait loop always comes to its end; at the test of the loop it
\* ends exactly when no reference is pending or the elapsed time has reached
\* the maximum wait; it never sleeps when no reference is pending; and the
\* final report lists as timed out exactly the references pending when the
\* loop ended.
C21_LoopTerminates ==
    /\ InLoop ~> (wpc = "report")
    /\ [][/\ wpc = "loop" =>
                (wpc' = "report" <=> remaining = <<>> \/ clock >= MaxWaitSecs)
          /\ PollStep /\ remaining' = <<>> => wpc' = "loop"
          /\ wpc = "report" =>
                /\ report'.printed
                /\ report'.timed_out = DictLabels(remaining)]_vars
    /\ [](wpc = "sleeping" => remaining # <<>>)

ZeroWait == call.max_wait_mins = <<0>>

\* C22: called with a maximum wait of 0, phase3.run never sleeps and never
\* starts a round after a reference has been queried, and its report lists
\* as timed out every reference that was pending when it was written.
C22_ZeroWaitNoSecondPoll ==
    /\ [](ZeroWait => wpc # "sleeping")
    /\ [][ZeroWait =>
             /\ wpc = "loop" /\ polled # NoPoll => wpc' = "report"
             /\ wpc = "report" => report'.timed_out = DictLabels(remaining)]_vars

\* the elements of a sequence
Range(seq) == { seq[i] : i \in DOMAIN seq }

\* no element occurs twice
NoRepeat(seq) == \A i, j \in DOMAIN seq : seq[i] = seq[j] => i = j

Given == DictKeys(state.pr_urls)

\* C23: from the moment phase3.run has set up its dicts, the labels of
\* passed, of failed (closed) and of remaining (pending) are pairwise
\* disjoint, their union is the set of labels phase3.run was given, and each
\* keeps the url it was given; the final report lists every given label
\* exactly once, in exactly one of passed, failed and timed out.
C23_LabelsPartitioned ==
    /\ wpc # "called" =>
          /\ DictKeys(passed) \cap DictKeys(failed) = {}
          /\ DictKeys(passed) \cap DictKeys(remaining) = {}
          /\ DictKeys(failed) \cap DictKeys(remaining) = {}
          /\ DictKeys(passed) \cup DictKeys(failed) \cup DictKeys(remaining) = Given
          /\ Range(passed) \cup Range(failed) \cup Range(remaining)
                = Range(state.pr_urls)
          /\ NoRepeat(DictLabels(passed) \o DictLabels(failed) \o DictLabels(remaining))
    /\ report.printed =>
          /\ NoRepeat(report.passed \o report.failed \o report.timed_out)
          /\ Range(report.passed) \cup Range(report.failed)
                \cup Range(report.timed_out) = Given
          /\ report.passed = DictLabels(passed)
          /\ report.failed = DictLabels(failed)
          /\ report.timed_out = DictLabels(remaining)

\* a final report with one label passed, one closed and one timed out
C23_Witness ==
    /\ report.written
    /\ report.passed = <<"api-types">>
    /\ report.failed = <<"controller">>
    /\ report.timed_out = <<"e2e-tests">>

(***************************************************************************)
(* Further claims about the job server (checked under Spec).                *)
(***************************************************************************)
\* C24: a job that has ended as failed still holds, in order, every event
\* its session appended before the failure, and its output is the text the
\* session had accumulated before the failure.
C24_PartialProgressKept ==
    jobs[J].status = "failed" =>
        /\ jobs[J].conversation = conversation
        /\ jobs[J].output = Join(output_parts)

(***************************************************************************)
(* Further claims about the pipeline (checked under PipelineSpec).          *)
(***************************************************************************)
\* C25: when the stream of a turn raises, in phase 1 or in a sub-session,
\* the error does not leave run_workflow, and the report of phase 2 has the
\* line "failed" for a sub-session that raised.
C25_StreamErrorsCaught ==
    /\ [][\A s \in DOMAIN sess :
             sess[s].pc = "draining" /\ sess'[s].pc = "raised"
                => phase' # "raised"]_vars
    /\ [](Phase2Returned =>
             \A i \in DOMAIN SubSessions :
                sess[SubSessions[i]].pc = "raised"
                   => outcome[ReportLabels[i]] = "failed")

\* the turns of phase 1 in the log of issued turns, in order
Phase1Log == SelectSeq(turns, LAMBDA t : t[1] = Phase1Session)

\* C26: the turns phase 1 has issued are the first k of its five scripted
\* turns, in the order of the script and each once; all of them are issued
\* on the one session of phase 1; and a turn is issued only when the response
\* to every earlier turn has been drained to its end.
C26_Phase1TurnsInOrder ==
    /\ [](Phase1Session \in DOMAIN sess =>
             LET p1 == sess[Phase1Session]
             IN  /\ p1.turn <= Phase1Turns
                 /\ Phase1Log = [k \in 1..p1.turn |-> <<Phase1Session, k>>]
                 /\ p1.drained <= p1.turn /\ p1.turn <= p1.drained + 1
                 /\ p1.pc \in {"closing", "returned"} =>
                       p1.turn = Phase1Turns /\ p1.drained = Phase1Turns)
    /\ [][Len(turns') > Len(turns) /\ turns'[Len(turns')][1] = Phase1Session =>
             /\ sess[Phase1Session].drained = sess[Phase1Session].turn
             /\ turns'[Len(turns')][2] = sess[Phase1Session].drained + 1
             /\ phase = "phase1"]_vars

\* phase 1 has issued its fifth turn after the four responses before it
C26_Witness ==
    /\ phase = "phase1"
    /\ sess[Phase1Session].pc = "draining"
    /\ sess[Phase1Session].turn = 5
    /\ sess[Phase1Session].drained = 4
    /\ Len(turns) = 5

(***************************************************************************)
(* Further claims about the CI watcher (checked under WatcherSpec).         *)
(***************************************************************************)
\* C27: whenever phase3.run has returned, for any mapping it was given, the
\* empty one included, it has written the final report, and the report
\* lists the passed, the closed and the timed-out labels.
C27_ReturnEndsWithReport ==
    wpc \in {"returned", "reported"} =>
        /\ report.printed /\ report.written
        /\ report.passed = DictLabels(passed)
        /\ report.failed = DictLabels(failed)
        /\ report.timed_out = DictLabels(remaining)


\* phase3.py:94, a step in which _check_pr_status runs gh for a reference
QueryIssued ==
    /\ wpc = "round" /\ round # <<>>
    /\ PrRefMatch(Head(round).url)
    /\ round' = Tail(round)

\* C28: once the elapsed time has reached the maximum wait, the watcher issues
\* no further provider query for any reference and moves no reference to the
\* passed or the closed list, whatever the earlier polls returned.
C28_CeilingIsHard ==
    [][clock >= WaitMins * 60 =>
          /\ ~QueryIssued
          /\ passed' = passed
          /\ failed' = failed]_vars


(***************************************************************************)
(* Claims about the observers of one job (checked under FairSpec).          *)
(***************************************************************************)
\* a _notify task or _run_job is suspended in `async with condition`
\* (server.py:172, 166), queued for the lock
ProducerQueued == \E i \in DOMAIN lockq : lockq[i] \in {"notify", "run_job"}

\* the observer o is suspended in an acquire() of the condition's lock
\* (server.py:137, or the one that ends condition.wait() at 139)
LockQueued(o) == obs[o].pc \in {"enter", "reacquire"}

\* C29: an observer whose client has stopped pulling frames, at whatever point
\* (the keepalive yield included, where the condition's lock is held), never
\* keeps another observer from going on to its next frame and never keeps the
\* producer's notifications from completing: an observer whose own client
\* reads, once queued for the lock, gets it, and so does every queued
\* notification of the producer.
C29_ObserversIndependent ==
    /\ LockQueued(Watched) ~> ~LockQueued(Watched)
    /\ ProducerQueued ~> ~ProducerQueued

\* C30: run_agent returns a successful result only if the stream delivered a
\* terminal result message: in every successful result the event list is not
\* empty and its last event is the `result` event (so a stream that ends
\* without a result message is not reported as success).
C30_SuccessNeedsResultMessage ==
    (result.returned /\ Success(result)) =>
        /\ result.conversation # <<>>
        /\ result.conversation[Len(result.conversation)].type = "result"


(***************************************************************************)
(* Claims about the workflow state's PR mapping (checked under              *)
(* PipelineSpec).                                                           *)
(***************************************************************************)
\* the labels of the three sessions
SessionLabels == {Phase1Session, SubSessions[1], SubSessions[2]}

\* the session s has extracted a PR reference from a response
Extracted(s) == s \in DOMAIN sess /\ sess[s].pr_url # NoUrl

\* phase3.run has been called (main.py:69)
Phase3Called == Phase2Returned /\ phase \in {"phase3", "done"}

\* C31: when phase 3 starts, state.pr_urls holds exactly the labels whose
\* session extracted a PR reference, each mapped to the reference its own
\* session extracted (no sub-session has overwritten or removed another
\* entry), and the mapping phase 3 watches is that mapping.
C31_MappingIsWhatWasExtracted ==
    Phase3Called =>
        /\ DictKeys(state.pr_urls) = { s \in SessionLabels : Extracted(s) }
        /\ \A s \in DictKeys(state.pr_urls) :
              state.pr_urls[DictGet(state.pr_urls, s)].url = sess[s].pr_url
        /\ wpc = "loop" => remaining = state.pr_urls


\* a turn of phase 1 after the init turn has been issued (phase1.py:62-90)
RepoTurnIssued ==
    \E i \in DOMAIN turns : turns[i][1] = Phase1Session /\ turns[i][2] >= 2

\* C32: in phase 1 the turns that act on the clone (turns 2 to 5) are issued
\* only if the repository local path was resolved after the init turn; in a
\* run aborted for an unresolved path the PR-raising turn was never issued and
\* no PR reference is recorded.
C32_RepoTurnsNeedRepoPath ==
    /\ RepoTurnIssued => state.repo_local_path # ""
    /\ phase = "aborted" =>
          /\ <<Phase1Session, Phase1Turns>> \notin Range(turns)
          /\ state.pr_urls = <<>>

=============================================================================
